---- MODULE Spec2Model ----
(***************************************************************************)
(* Pokagotchi MCP server (src/src/server.py): a pet record persisted in    *)
(* pet_state.json, a scoring function over email metrics, and the three    *)
(* tools check_pet_status, update_pet_from_email_data and get_pet_advice.  *)
(*                                                                         *)
(* Conventions of the model                                                *)
(*  - avg_response_time_hours is a float in the code; it is carried here   *)
(*    in tenths of an hour (an integer), so 3.9 h = 39 and 4.0 h = 40.     *)
(*  - datetime.datetime.now().isoformat() is carried as the integer clock  *)
(*    reading it encodes (the ISO-8601 text of a naive datetime orders as  *)
(*    the datetime does).                                                  *)
(*  - avg_stat = (h + ha + e) / 3 is a real; the comparisons avg >= 80 and *)
(*    avg >= 50 are carried exactly as 3-fold integer comparisons.         *)
(*  - the emoji and glyph texts are carried as short tags.                 *)
(***************************************************************************)
EXTENDS Integers, Sequences, FiniteSets, TLC

VARIABLES
    pet_state_file,  \* the content of pet_state.json, or FileNotFound
    clock,           \* what datetime.datetime.now() reads
    pc,              \* per caller: where it is in update_pet_from_email_data
    email_stats,     \* per caller: the email_stats dict of the call
    scores,          \* per caller: the locals health, happiness, energy
    state,           \* per caller: the local dict state
    ret,             \* the value returned by the tool call that returned last
    last_saver,      \* history: the caller whose save_pet_state ran last (0: none)
    stale            \* history, per caller: another caller has saved since this
                     \* caller's load_pet_state

vars == <<pet_state_file, clock, pc, email_stats, scores, state, ret, last_saver, stale>>

(***************************************************************************)
(* Bounds of the model.                                                    *)
(***************************************************************************)
\* the clock reads 0..MaxClock
MaxClock == 2

\* the two concurrent callers of update_pet_from_email_data
Callers == {1, 2}

(***************************************************************************)
(* Values.                                                                 *)
(***************************************************************************)
\* open(PET_STATE_FILE, 'r') raising FileNotFoundError: no persisted record
FileNotFound == [exists |-> FALSE]

\* a local variable that is not bound (the caller is not inside the call)
Unbound == [bound |-> FALSE]

\* no tool call has returned yet
NoReturn == [op |-> "none"]

Min(a, b) == IF a < b THEN a ELSE b

Max(a, b) == IF a > b THEN a ELSE b

(***************************************************************************)
(* calculate_pet_stats                                                     *)
(***************************************************************************)
\* the defaults of update_pet_from_email_data's parameters (and of the
\* .get() calls of calculate_pet_stats); avg_response_time_hours 24.0 = 240
DefaultMetrics ==
    [ unread_count            |-> 0,
      total_inbox_count       |-> 0,
      emails_awaiting_reply   |-> 0,
      avg_response_time_hours |-> 240,
      dormant_threads_7days   |-> 0,
      action_emails_percent   |-> 50,
      volume_today            |-> 10,
      is_busy_period          |-> FALSE ]

\* faulty variant: the second branch reads <= 5
health_awaiting_le5(emails_awaiting) ==
    IF emails_awaiting = 0 THEN 15
    ELSE IF emails_awaiting <= 5 THEN 10
    ELSE IF emails_awaiting > 10 THEN -10
    ELSE 0

\* if emails_awaiting == 0 / elif < 5 / elif > 10
health_awaiting(emails_awaiting) ==
    IF emails_awaiting = 0 THEN 15
    ELSE IF emails_awaiting < 5 THEN 10
    ELSE IF emails_awaiting > 10 THEN -10
    ELSE 0

\* if avg_response_time < 4 (tenths of an hour: < 40)
health_response(avg_response_time) ==
    IF avg_response_time < 40 THEN 5 ELSE 0

\* if unread_count == 0 / elif < 10 / elif > 50
happiness_unread(unread_count) ==
    IF unread_count = 0 THEN 20
    ELSE IF unread_count < 10 THEN 10
    ELSE IF unread_count > 50 THEN -5
    ELSE 0

\* if total_inbox < 50 / elif > 200
happiness_inbox(total_inbox) ==
    IF total_inbox < 50 THEN 5
    ELSE IF total_inbox > 200 THEN -10
    ELSE 0

\* if action_percent <= 30 / elif > 70
energy_action(action_percent) ==
    IF action_percent <= 30 THEN 10
    ELSE IF action_percent > 70 THEN -10
    ELSE 0

\* faulty variant: the quiet-day bonus is given up to and including 10 emails
energy_volume_le10(is_busy_period, volume_today) ==
    IF is_busy_period /\ volume_today > 30 THEN -5
    ELSE IF ~is_busy_period /\ volume_today <= 10 THEN 15
    ELSE 0

\* if is_busy_period and volume_today > 30 / elif not is_busy_period and < 10
energy_volume(is_busy_period, volume_today) ==
    IF is_busy_period /\ volume_today > 30 THEN -5
    ELSE IF ~is_busy_period /\ volume_today < 10 THEN 15
    ELSE 0

\* faulty variant: the lower bound of the clamp is missing
clamp_no_floor(value) == Min(100, value)

\* max(0, min(100, value))
clamp(value) == Max(0, Min(100, value))

calculate_pet_stats(stats) ==
    LET health    == 50 + health_awaiting(stats.emails_awaiting_reply)
                        + health_response(stats.avg_response_time_hours)
                        - stats.dormant_threads_7days * 15
        happiness == 50 + happiness_unread(stats.unread_count)
                        + happiness_inbox(stats.total_inbox_count)
        energy    == 50 + energy_action(stats.action_emails_percent)
                        + energy_volume(stats.is_busy_period, stats.volume_today)
    IN  [ health    |-> clamp(health),
          happiness |-> clamp(happiness),
          energy    |-> clamp(energy) ]

(***************************************************************************)
(* The state store.                                                        *)
(***************************************************************************)
\* the record load_pet_state builds when the file is not found
DefaultState(now) ==
    [ name         |-> "Pokagotchi",
      health       |-> 75,
      happiness    |-> 75,
      energy       |-> 75,
      last_updated |-> now,
      status       |-> "okay",
      mood_emoji   |-> "neutral" ]

\* the value load_pet_state returns
load_pet_state(file, now) ==
    IF file = FileNotFound THEN DefaultState(now) ELSE file

\* faulty variant: the default record is written when the file is not found
load_creates_file(file, now) ==
    IF file = FileNotFound THEN DefaultState(now) ELSE file

\* the file after load_pet_state: it is opened for reading only
file_after_load(file, now) == file

\* faulty variant: the status of the record on disk is kept (a merging save)
save_keeps_status(file, st) ==
    IF file = FileNotFound THEN st
    ELSE [st EXCEPT !.status = file.status, !.mood_emoji = file.mood_emoji]

\* the file after save_pet_state(state): opened with 'w', the whole record
\* is rewritten by one json.dump; the write is taken as one atomic step, so a
\* reader never sees a truncated or half-written file
save_pet_state(file, st) == st

(***************************************************************************)
(* Presentation.                                                           *)
(***************************************************************************)
\* faulty variant: the first threshold is strict (avg_stat > 80)
classify_gt80(health, happiness, energy) ==
    IF health + happiness + energy > 3 * 80
    THEN [status |-> "thriving", mood_emoji |-> "positive"]
    ELSE IF health + happiness + energy >= 3 * 50
    THEN [status |-> "okay", mood_emoji |-> "neutral"]
    ELSE [status |-> "struggling", mood_emoji |-> "negative"]

\* faulty variant: the first threshold is 70 (avg_stat >= 70)
classify_ge70(health, happiness, energy) ==
    IF health + happiness + energy >= 3 * 70
    THEN [status |-> "thriving", mood_emoji |-> "positive"]
    ELSE IF health + happiness + energy >= 3 * 50
    THEN [status |-> "okay", mood_emoji |-> "neutral"]
    ELSE [status |-> "struggling", mood_emoji |-> "negative"]

\* avg_stat = (health + happiness + energy) / 3; >= 80 / >= 50 / else
classify(health, happiness, energy) ==
    IF health + happiness + energy >= 3 * 80
    THEN [status |-> "thriving", mood_emoji |-> "positive"]
    ELSE IF health + happiness + energy >= 3 * 50
    THEN [status |-> "okay", mood_emoji |-> "neutral"]
    ELSE [status |-> "struggling", mood_emoji |-> "negative"]

get_pet_ascii_art(health, happiness, energy) ==
    IF health + happiness + energy >= 3 * 80 THEN "art_happy"
    ELSE IF health + happiness + energy >= 3 * 50 THEN "art_neutral"
    ELSE "art_dizzy"

\* the messages list before " | ".join
get_status_message(health, happiness, energy) ==
    (IF health >= 80 THEN <<"responsive">>
     ELSE IF health >= 50 THEN <<"needs_attention">>
     ELSE <<"drowning">>)
    \o (IF happiness >= 80 THEN <<"organized">> ELSE <<>>)
    \o (IF energy < 50 THEN <<"exhausted">> ELSE <<>>)

\* the fields the report of check_pet_status is formatted from
check_pet_status(file, now) ==
    LET st == load_pet_state(file, now)
    IN  [ name         |-> st.name,
          ascii_art    |-> get_pet_ascii_art(st.health, st.happiness, st.energy),
          health       |-> st.health,
          happiness    |-> st.happiness,
          energy       |-> st.energy,
          status_msg   |-> get_status_message(st.health, st.happiness, st.energy),
          last_updated |-> st.last_updated ]

\* faulty variant: the health tip is given up to and including 70
advice_health_le70(file, now) ==
    LET st     == load_pet_state(file, now)
        advice == (IF st.health <= 70 THEN <<"health_tip">> ELSE <<>>)
               \o (IF st.happiness < 70 THEN <<"happiness_tip">> ELSE <<>>)
               \o (IF st.energy < 70 THEN <<"energy_tip">> ELSE <<>>)
    IN  IF advice = <<>> THEN <<"great_job">> ELSE advice

\* the advice list before "\n".join
get_pet_advice(file, now) ==
    LET st     == load_pet_state(file, now)
        advice == (IF st.health < 70 THEN <<"health_tip">> ELSE <<>>)
               \o (IF st.happiness < 70 THEN <<"happiness_tip">> ELSE <<>>)
               \o (IF st.energy < 70 THEN <<"energy_tip">> ELSE <<>>)
    IN  IF advice = <<>> THEN <<"great_job">> ELSE advice

(***************************************************************************)
(* update_pet_from_email_data, statement by statement.                     *)
(***************************************************************************)
\* state["health"] = health; state["happiness"] = ...; state["energy"] = ...
with_scores(st, sc) ==
    [st EXCEPT !.health = sc.health, !.happiness = sc.happiness, !.energy = sc.energy]

\* faulty variant: only the time of day is written (the clock reading modulo 2)
with_time_of_day(st, now) == [st EXCEPT !.last_updated = now % 2]

\* state["last_updated"] = datetime.datetime.now().isoformat()
with_timestamp(st, now) == [st EXCEPT !.last_updated = now]

\* state["status"], state["mood_emoji"] from the average of the new scores
with_status(st, sc) ==
    LET c == classify(sc.health, sc.happiness, sc.energy)
    IN  [st EXCEPT !.status = c.status, !.mood_emoji = c.mood_emoji]

\* the tool is entered with its arguments bound
Call(p, m) ==
    /\ pc[p] \in {"idle", "done"}
    /\ pc' = [pc EXCEPT ![p] = "calc"]
    /\ email_stats' = [email_stats EXCEPT ![p] = m]
    /\ scores' = [scores EXCEPT ![p] = Unbound]
    /\ state' = [state EXCEPT ![p] = Unbound]
    /\ stale' = [stale EXCEPT ![p] = FALSE]
    /\ UNCHANGED <<pet_state_file, clock, ret, last_saver>>

\* health, happiness, energy = calculate_pet_stats(email_stats)
Calc(p) ==
    /\ pc[p] = "calc"
    /\ pc' = [pc EXCEPT ![p] = "load"]
    /\ scores' = [scores EXCEPT ![p] = calculate_pet_stats(email_stats[p])]
    /\ UNCHANGED <<pet_state_file, clock, email_stats, state, ret, last_saver, stale>>

\* state = load_pet_state() and the three score assignments
Load(p) ==
    /\ pc[p] = "load"
    /\ pc' = [pc EXCEPT ![p] = "stamp"]
    /\ state' = [state EXCEPT
                   ![p] = with_scores(load_pet_state(pet_state_file, clock), scores[p])]
    /\ pet_state_file' = file_after_load(pet_state_file, clock)
    /\ stale' = [stale EXCEPT ![p] = FALSE]
    /\ UNCHANGED <<clock, email_stats, scores, ret, last_saver>>

\* the clock is read into state["last_updated"]; status and mood follow
Stamp(p) ==
    /\ pc[p] = "stamp"
    /\ pc' = [pc EXCEPT ![p] = "save"]
    /\ state' = [state EXCEPT
                   ![p] = with_status(with_timestamp(state[p], clock), scores[p])]
    /\ UNCHANGED <<pet_state_file, clock, email_stats, scores, ret, last_saver, stale>>

\* save_pet_state(state) and the return of the confirmation line
Save(p) ==
    /\ pc[p] = "save"
    /\ pc' = [pc EXCEPT ![p] = "done"]
    /\ pet_state_file' = save_pet_state(pet_state_file, state[p])
    /\ ret' = [op |-> "update_pet_from_email_data", out |-> scores[p]]
    /\ last_saver' = p
    /\ stale' = [q \in Callers |-> IF q = p THEN stale[q] ELSE TRUE]
    /\ UNCHANGED <<clock, email_stats, scores, state>>

\* the tool check_pet_status
CheckStatus ==
    /\ ret' = [op |-> "check_pet_status", out |-> check_pet_status(pet_state_file, clock)]
    /\ pet_state_file' = file_after_load(pet_state_file, clock)
    /\ UNCHANGED <<clock, pc, email_stats, scores, state, last_saver, stale>>

\* the tool get_pet_advice
GetAdvice ==
    /\ ret' = [op |-> "get_pet_advice", out |-> get_pet_advice(pet_state_file, clock)]
    /\ pet_state_file' = file_after_load(pet_state_file, clock)
    /\ UNCHANGED <<clock, pc, email_stats, scores, state, last_saver, stale>>

\* time passes
Tick ==
    /\ clock < MaxClock
    /\ clock' = clock + 1
    /\ UNCHANGED <<pet_state_file, pc, email_stats, scores, state, ret, last_saver, stale>>

(***************************************************************************)
(* Inputs.                                                                 *)
(***************************************************************************)
\* 100 / 75 / 65: the mean is exactly 80
Metrics240 == [DefaultMetrics EXCEPT !.dormant_threads_7days = -4, !.volume_today = 9]

\* 100 / 75 / 60: the mean is just under 80
Metrics235 == [DefaultMetrics EXCEPT !.dormant_threads_7days = -4,
                                     !.action_emails_percent = 30]

\* 50 / 50 / 50: the mean is exactly 50
Metrics150 == [DefaultMetrics EXCEPT !.emails_awaiting_reply = 5, !.unread_count = 10,
                                     !.total_inbox_count = 50]

\* 35 / 60 / 50: the mean is just under 50
Metrics145 == [DefaultMetrics EXCEPT !.emails_awaiting_reply = 5, !.unread_count = 9,
                                     !.total_inbox_count = 50,
                                     !.dormant_threads_7days = 1]

\* the arguments of the calls made while callers run concurrently
SmallMetrics == {DefaultMetrics, Metrics240, Metrics235, Metrics150, Metrics145}

\* the arguments the scoring function is examined on: both sides of every
\* threshold, negative counts, and very large dormant-thread counts
WideMetrics ==
    [ unread_count            : {-1, 0, 9, 10, 50, 51},
      total_inbox_count       : {49, 50, 200, 201},
      emails_awaiting_reply   : {-1, 0, 4, 5, 10, 11},
      avg_response_time_hours : {-10, 39, 40, 240},
      dormant_threads_7days   : {-1000, 0, 1, 1000},
      action_emails_percent   : {30, 31, 70, 71},
      volume_today            : {9, 10, 30, 31},
      is_busy_period          : BOOLEAN ]

NonNegative(m) ==
    /\ m.unread_count >= 0
    /\ m.total_inbox_count >= 0
    /\ m.emails_awaiting_reply >= 0
    /\ m.avg_response_time_hours >= 0
    /\ m.dormant_threads_7days >= 0
    /\ m.action_emails_percent >= 0
    /\ m.volume_today >= 0

(***************************************************************************)
(* Specifications.                                                         *)
(***************************************************************************)
\* the server has started, no record is persisted, no call has been made
Init ==
    /\ pet_state_file = FileNotFound
    /\ clock = 0
    /\ pc = [p \in Callers |-> "idle"]
    /\ email_stats = [p \in Callers |-> Unbound]
    /\ scores = [p \in Callers |-> Unbound]
    /\ state = [p \in Callers |-> Unbound]
    /\ ret = NoReturn
    /\ last_saver = 0
    /\ stale = [p \in Callers |-> FALSE]

CallSmall(p) == \E m \in SmallMetrics : Call(p, m)

\* concurrent callers, the tools in any order and interleaving
Next ==
    \/ Tick
    \/ CheckStatus
    \/ GetAdvice
    \/ \E p \in Callers : CallSmall(p)
    \/ \E p \in Callers : Calc(p)
    \/ \E p \in Callers : Load(p)
    \/ \E p \in Callers : Stamp(p)
    \/ \E p \in Callers : Save(p)

Spec == Init /\ [][Next]_vars

\* one call of update_pet_from_email_data is in flight, with any arguments
InitCall(metrics) ==
    /\ pet_state_file = FileNotFound
    /\ clock = 0
    /\ pc = [p \in Callers |-> IF p = 1 THEN "calc" ELSE "idle"]
    /\ \E m \in metrics :
          email_stats = [p \in Callers |-> IF p = 1 THEN m ELSE Unbound]
    /\ scores = [p \in Callers |-> Unbound]
    /\ state = [p \in Callers |-> Unbound]
    /\ ret = NoReturn
    /\ last_saver = 0
    /\ stale = [p \in Callers |-> FALSE]

InitCalc == InitCall(WideMetrics)

CallAgain == \E m \in SmallMetrics : Call(1, m)

\* the call runs to its end and further calls follow it, one at a time; the
\* two reading tools are called at any point
NextCalc ==
    \/ CheckStatus
    \/ GetAdvice
    \/ CallAgain
    \/ Calc(1)
    \/ Load(1)
    \/ Stamp(1)
    \/ Save(1)

SpecCalc == InitCalc /\ [][NextCalc]_vars

InitNonNeg == InitCall({m \in WideMetrics : NonNegative(m)})

CallNonNeg == \E m \in {n \in SmallMetrics : NonNegative(n)} : Call(1, m)

\* every call has non-negative arguments
NextNonNeg ==
    \/ CheckStatus
    \/ GetAdvice
    \/ CallNonNeg
    \/ Calc(1)
    \/ Load(1)
    \/ Stamp(1)
    \/ Save(1)

SpecNonNeg == InitNonNeg /\ [][NextNonNeg]_vars

(***************************************************************************)
(* Properties.                                                             *)
(***************************************************************************)
\* the pet state a tool would read now: the persisted record, or the default
PetState == load_pet_state(pet_state_file, clock)

ScoreSum(st) == st.health + st.happiness + st.energy

AllReturned == \A q \in Callers : pc[q] \in {"idle", "done"}

\* a step in which caller p executes save_pet_state
SaveStep(p) == pc[p] = "save" /\ pc'[p] = "done"

\* C1: after any calls, with any integer metrics, health, happiness and energy
\* of the pet state (default or persisted), and the scores every call has
\* computed, are integers in 0..100
C1_ScoresInRange ==
    /\ PetState.health \in 0..100
    /\ PetState.happiness \in 0..100
    /\ PetState.energy \in 0..100
    /\ \A p \in Callers :
          scores[p] # Unbound =>
             /\ scores[p].health \in 0..100
             /\ scores[p].happiness \in 0..100
             /\ scores[p].energy \in 0..100

\* a call with 1000 dormant threads has been saved with health clamped to 0
C1_Witness ==
    /\ pet_state_file # FileNotFound
    /\ email_stats[1].dormant_threads_7days = 1000
    /\ pc[1] = "done"
    /\ pet_state_file.health = 0
    /\ pet_state_file.energy = 75

\* C2: in every pet state (default or persisted) status and mood_emoji agree
\* with the mean of the stored scores: thriving/positive iff sum >= 240,
\* okay/neutral iff 150 <= sum < 240, struggling/negative iff sum < 150
C2_StatusMatchesMean ==
    LET st == PetState
        s  == ScoreSum(st)
    IN  /\ st.status \in {"thriving", "okay", "struggling"}
        /\ st.status = "thriving" <=> s >= 240
        /\ st.status = "okay" <=> (150 <= s /\ s < 240)
        /\ st.status = "struggling" <=> s < 150
        /\ st.mood_emoji = "positive" <=> st.status = "thriving"
        /\ st.mood_emoji = "neutral" <=> st.status = "okay"
        /\ st.mood_emoji = "negative" <=> st.status = "struggling"

\* a record with mean exactly 80 is persisted as thriving, written over a
\* record with mean exactly 50 by a call that overlapped the other one
C2_Witness ==
    /\ AllReturned
    /\ last_saver = 1
    /\ stale[1]
    /\ email_stats[2] = Metrics150
    /\ ScoreSum(pet_state_file) = 240
    /\ pet_state_file.status = "thriving"

\* the adjustments as the claim C3 words them
ClaimedAwaiting(n) ==
    IF n = 0 THEN 15 ELSE IF 0 < n /\ n < 5 THEN 10 ELSE IF n > 10 THEN -10 ELSE 0

ClaimedUnread(n) ==
    IF n = 0 THEN 20 ELSE IF 0 < n /\ n < 10 THEN 10 ELSE IF n > 50 THEN -5 ELSE 0

\* the adjustments with the second band open below: n < 5 (n < 10), n # 0
AmendedAwaiting(n) ==
    IF n = 0 THEN 15 ELSE IF n < 5 THEN 10 ELSE IF n > 10 THEN -10 ELSE 0

AmendedUnread(n) ==
    IF n = 0 THEN 20 ELSE IF n < 10 THEN 10 ELSE IF n > 50 THEN -5 ELSE 0

\* the reference rules of C3, given the two banded adjustments
Reference(m, A, U) ==
    LET R == IF m.avg_response_time_hours < 40 THEN 5 ELSE 0
        T == IF m.total_inbox_count < 50 THEN 5
             ELSE IF m.total_inbox_count > 200 THEN -10 ELSE 0
        P == IF m.action_emails_percent <= 30 THEN 10
             ELSE IF m.action_emails_percent > 70 THEN -10 ELSE 0
        B == IF m.is_busy_period /\ m.volume_today > 30 THEN -5
             ELSE IF (~m.is_busy_period) /\ m.volume_today < 10 THEN 15 ELSE 0
        C(v) == IF v < 0 THEN 0 ELSE IF v > 100 THEN 100 ELSE v
    IN  [ health    |-> C(50 + A + R - 15 * m.dormant_threads_7days),
          happiness |-> C(50 + U + T),
          energy    |-> C(50 + P + B) ]

\* C3 as claimed: the scores of every call are those of the reference rules
\* with +10 for 0 < emails_awaiting_reply < 5 and for 0 < unread_count < 10
C3_Original ==
    \A p \in Callers :
       scores[p] # Unbound =>
          scores[p] = Reference(email_stats[p],
                                ClaimedAwaiting(email_stats[p].emails_awaiting_reply),
                                ClaimedUnread(email_stats[p].unread_count))

\* C3 amended: the scores of every call are those of the reference rules with
\* +10 for every non-zero emails_awaiting_reply below 5 and every non-zero
\* unread_count below 10, the negative ones included
C3_Amended ==
    \A p \in Callers :
       scores[p] # Unbound =>
          scores[p] = Reference(email_stats[p],
                                AmendedAwaiting(email_stats[p].emails_awaiting_reply),
                                AmendedUnread(email_stats[p].unread_count))

\* negative counts have been scored: health 50 + 10, happiness 50 + 10 + 0
C3_Witness ==
    /\ scores[1] # Unbound
    /\ email_stats[1].emails_awaiting_reply = -1
    /\ email_stats[1].unread_count = -1
    /\ email_stats[1].dormant_threads_7days = 0
    /\ scores[1].health = 60
    /\ scores[1].happiness = 60

\* C4: a call with every parameter at its default computes 65 / 75 / 50, and
\* once it has saved last the persisted record holds 65 / 75 / 50
C4_DefaultsGive657550 ==
    \A p \in Callers :
       email_stats[p] = DefaultMetrics =>
          /\ scores[p] # Unbound =>
                scores[p] = [health |-> 65, happiness |-> 75, energy |-> 50]
          /\ (pc[p] = "done" /\ last_saver = p) =>
                /\ pet_state_file.health = 65
                /\ pet_state_file.happiness = 75
                /\ pet_state_file.energy = 50
                /\ ret.op = "update_pet_from_email_data" =>
                      ret.out = [health |-> 65, happiness |-> 75, energy |-> 50]

\* the default call has saved over the thriving record of an earlier call
C4_Witness ==
    /\ pc[1] = "done"
    /\ pc[2] = "done"
    /\ last_saver = 1
    /\ ~stale[1]
    /\ email_stats[1] = DefaultMetrics
    /\ email_stats[2] = Metrics240
    /\ pet_state_file.health = 65

\* C5: two consecutive check_pet_status calls with no update in between
\* return identical output, the Last updated line included, the clock being
\* free to advance between them and the record being absent or present
C5_StatusIdempotent ==
    [][(ret.op = "check_pet_status" /\ ret'.op = "check_pet_status")
          => ret'.out = ret.out]_vars

\* C6: only save_pet_state in update_pet_from_email_data changes the
\* persisted record; check_pet_status and get_pet_advice leave it as it is,
\* and with no record they answer from the default record and leave it absent
C6_OnlyUpdateWrites ==
    [][/\ pet_state_file' # pet_state_file => \E p \in Callers : SaveStep(p)
       /\ (ret' # ret /\ ret'.op = "check_pet_status"
             /\ pet_state_file = FileNotFound) =>
             /\ pet_state_file' = FileNotFound
             /\ ret'.out.health = 75
             /\ ret'.out.happiness = 75
             /\ ret'.out.energy = 75
             /\ ret'.out.status_msg = <<"needs_attention">>
       /\ (ret' # ret /\ ret'.op = "get_pet_advice"
             /\ pet_state_file = FileNotFound) =>
             /\ pet_state_file' = FileNotFound
             /\ ret'.out = <<"great_job">>]_vars

\* both reading tools have answered and no record exists
C6_Witness ==
    /\ pet_state_file = FileNotFound
    /\ ret.op = "check_pet_status"
    /\ ret.out.health = 75
    /\ clock > 0
    /\ \E p \in Callers : pc[p] = "save"

Range(seq) == {seq[i] : i \in DOMAIN seq}

Tips == <<"health_tip", "happiness_tip", "energy_tip">>

InOut(tip) == tip \in Range(ret.out)

\* C7: get_pet_advice returns the health tip iff health < 70, the happiness
\* tip iff happiness < 70, the energy tip iff energy < 70, in that order, and
\* the congratulatory line iff none of them, alone
C7_AdviceChecklist ==
    ret.op = "get_pet_advice" =>
       /\ InOut("health_tip") <=> PetState.health < 70
       /\ InOut("happiness_tip") <=> PetState.happiness < 70
       /\ InOut("energy_tip") <=> PetState.energy < 70
       /\ InOut("great_job") <=>
             ~(InOut("health_tip") \/ InOut("happiness_tip") \/ InOut("energy_tip"))
       /\ InOut("great_job") => ret.out = <<"great_job">>
       /\ ~InOut("great_job") => ret.out = SelectSeq(Tips, InOut)

\* the advice for the record 60 / 60 / 60 is the three tips in order
C7_Witness ==
    /\ ret.op = "get_pet_advice"
    /\ pet_state_file # FileNotFound
    /\ pet_state_file.health = 60
    /\ pet_state_file.happiness = 60
    /\ pet_state_file.energy = 60
    /\ ret.out = Tips

\* C8: once the concurrent update calls have all returned, the persisted
\* record is the record of the call whose save ran last: its scores, status,
\* mood and timestamp all are that call's own, none is another call's
C8_LastWriteWins ==
    (AllReturned /\ last_saver # 0) =>
       LET p  == last_saver
           sc == calculate_pet_stats(email_stats[p])
       IN  /\ pet_state_file = state[p]
           /\ pet_state_file.health = sc.health
           /\ pet_state_file.happiness = sc.happiness
           /\ pet_state_file.energy = sc.energy
           /\ pet_state_file.status
                 = (IF ScoreSum(sc) >= 240 THEN "thriving"
                    ELSE IF ScoreSum(sc) >= 150 THEN "okay" ELSE "struggling")
           /\ pet_state_file.mood_emoji
                 = (IF ScoreSum(sc) >= 240 THEN "positive"
                    ELSE IF ScoreSum(sc) >= 150 THEN "neutral" ELSE "negative")

\* two overlapping calls have returned: caller 2 read the clock later and
\* saved first, caller 1 saved last and nothing of caller 2 is left
C8_Witness ==
    /\ pc[1] = "done"
    /\ pc[2] = "done"
    /\ last_saver = 1
    /\ stale[1]
    /\ email_stats[1] = Metrics145
    /\ email_stats[2] = Metrics240
    /\ state[2].last_updated > state[1].last_updated
    /\ pet_state_file.status = "struggling"

\* C9: with non-negative metrics only, every call computes health <= 70,
\* happiness <= 75 and energy <= 75 and never sets thriving or the positive
\* symbol, and no pet state is thriving
C9_NeverThriving ==
    /\ \A p \in Callers :
          /\ scores[p] # Unbound =>
                /\ scores[p].health <= 70
                /\ scores[p].happiness <= 75
                /\ scores[p].energy <= 75
          /\ pc[p] \in {"save", "done"} =>
                /\ state[p].status # "thriving"
                /\ state[p].mood_emoji # "positive"
    /\ PetState.status # "thriving"
    /\ PetState.mood_emoji # "positive"

\* the highest scores non-negative metrics give have been saved: 70 / 75 / 75
C9_Witness ==
    /\ pc[1] = "done"
    /\ NonNegative(email_stats[1])
    /\ pet_state_file.health = 70
    /\ pet_state_file.happiness = 75
    /\ pet_state_file.energy = 75
    /\ pet_state_file.status = "okay"

\* C10 as claimed: last_updated of the persisted record never decreases from
\* one save to the next, the calls being concurrent or not
C10_Original ==
    [][\A p \in Callers :
          (SaveStep(p) /\ pet_state_file # FileNotFound) =>
             pet_state_file'.last_updated >= pet_state_file.last_updated]_vars

\* C10 amended: last_updated never decreases from one save to the next when
\* no other call has saved since the saving call loaded the record, and no
\* saved last_updated is later than the clock
C10_Amended ==
    [][\A p \in Callers :
          SaveStep(p) =>
             /\ pet_state_file'.last_updated <= clock
             /\ (pet_state_file # FileNotFound /\ ~stale[p]) =>
                   pet_state_file'.last_updated >= pet_state_file.last_updated]_vars

\* caller 1 loaded the record caller 2 had saved, and saved a later timestamp
C10_Witness ==
    /\ pc[1] = "done"
    /\ pc[2] = "done"
    /\ last_saver = 1
    /\ ~stale[1]
    /\ pet_state_file.last_updated > state[2].last_updated

====
